---- MODULE Spec2Model ----
(***************************************************************************)
(* Model of registryWrapper/wrapper.cpp: the four operations               *)
(* Wrapper::RegWrite (text), Wrapper::RegWrite (DWORD), Wrapper::RegDel    *)
(* (key) and Wrapper::RegDel (value), run one call at a time against a     *)
(* model of the Windows registry.                                          *)
(*                                                                         *)
(* Wide strings are sequences of one-character strings without the         *)
(* terminator; text payloads are sequences of UTF-16 code units.           *)
(***************************************************************************)
EXTENDS Integers, Sequences, FiniteSets, TLC

VARIABLES
    reg,          \* the registry: key |-> (value name |-> [type, data])
    openHandles,  \* ids of the key handles that are open in the process
    calls,        \* number of calls started
    leakCalls,    \* completed calls whose create/open succeeded and whose value step failed
    ptrSize,      \* sizeof(const wchar_t*) of the build
    pc,           \* position of the running call
    op,           \* which of the four operations is running
    path0,        \* the path argument as passed by the caller
    path,         \* the local pointer `path`
    name,         \* the name argument
    value,        \* the value argument
    type,         \* the type argument
    rootKey,      \* the local `rootKey`
    j,            \* the loop index (0 outside the loop, where it is out of scope)
    ex,           \* what() of the exception in flight
    trace,        \* registry primitives this call has invoked, in order
    msgs,         \* message boxes this call has shown
    reg0          \* the registry when the call started

vars == <<reg, openHandles, calls, leakCalls, ptrSize, pc, op,
          path0, path, name, value, type, rootKey, j, ex, trace, msgs, reg0>>

(***************************************************************************)
(* Bounds                                                                  *)
(***************************************************************************)
MaxCalls == 2
MaxLen == 1

(***************************************************************************)
(* Strings and bytes                                                       *)
(***************************************************************************)
BS == "\\"

Min(a, b) == IF a < b THEN a ELSE b

\* the first n characters of s, or all of s when it ends earlier
Take(s, n) == SubSeq(s, 1, Min(n, Len(s)))

\* 0 when the two strings agree on their first n characters (a terminator
\* ends the comparison and differs from every character), 1 for any
\* non-zero result
wcsncmp(a, b, n) == IF Take(a, n) = Take(b, n) THEN 0 ELSE 1

wcslen(s) == Len(s)

sizeof_wchar_t == 2

sizeof_DWORD == 4

RECURSIVE LittleEndian(_, _)
LittleEndian(n, k) ==
    IF k = 0 THEN << >> ELSE <<n % 256>> \o LittleEndian(n \div 256, k - 1)

\* the memory a text value points at: its code units and the terminator
RECURSIVE WideBytes(_)
WideBytes(s) ==
    IF s = << >> THEN LittleEndian(0, sizeof_wchar_t)
    ELSE LittleEndian(Head(s), sizeof_wchar_t) \o WideBytes(Tail(s))

\* the components of a subkey path, split at backslashes
RECURSIVE SplitFrom(_, _)
SplitFrom(s, cur) ==
    IF s = << >> THEN (IF cur = << >> THEN << >> ELSE <<cur>>)
    ELSE IF Head(s) = BS
         THEN (IF cur = << >> THEN << >> ELSE <<cur>>) \o SplitFrom(Tail(s), << >>)
         ELSE SplitFrom(Tail(s), Append(cur, Head(s)))

Split(s) == SplitFrom(s, << >>)

(***************************************************************************)
(* Handles                                                                 *)
(***************************************************************************)
Predef(r) == [kind |-> "predef", id |-> 0, key |-> <<r, << >> >>]

HKEY_CURRENT_USER == Predef("HKEY_CURRENT_USER")
HKEY_LOCAL_MACHINE == Predef("HKEY_LOCAL_MACHINE")
HKEY_CLASSES_ROOT == Predef("HKEY_CLASSES_ROOT")

PredefinedHandles == {HKEY_CURRENT_USER, HKEY_LOCAL_MACHINE, HKEY_CLASSES_ROOT}

\* a handle value that names no key
InvalidHandle == [kind |-> "invalid", id |-> 0, key |-> <<"NONE", << >> >>]

Opened(i, k) == [kind |-> "opened", id |-> i, key |-> k]

(***************************************************************************)
(* The arrays of the root resolution, indexed from 0 as in the source      *)
(***************************************************************************)
branch == [i \in 0..2 |->
             CASE i = 0 -> <<"H", "K", "C", "U", BS>>
               [] i = 1 -> <<"H", "K", "L", "M", BS>>
               [] i = 2 -> <<"H", "K", "C", "R", BS>>]

keys == [i \in 0..2 |->
           CASE i = 0 -> HKEY_CURRENT_USER
             [] i = 1 -> HKEY_LOCAL_MACHINE
             [] i = 2 -> HKEY_CLASSES_ROOT]

NumBranch == Cardinality(DOMAIN branch)

\* the loop bound of the source: the size of the array in bytes
sizeof_branch == NumBranch * ptrSize

PathAdvance_four(p) == SubSeq(p, 5, Len(p))

\* path += 5
PathAdvance(p) == SubSeq(p, 6, Len(p))

(***************************************************************************)
(* Inputs                                                                  *)
(***************************************************************************)
SubA == <<"A">>
SubAB == <<"A", BS, "B">>

Paths == { branch[0] \o SubA, branch[0] \o SubAB, branch[1] \o SubA,
           branch[2] \o SubA, SubA, <<"h", "k", "c", "u", BS, "A">> }

Names == {"N", "M"}

RECURSIVE Xs(_)
Xs(n) == IF n = 0 THEN << >> ELSE <<120>> \o Xs(n - 1)

TextValues == { Xs(n) : n \in 0..MaxLen }

DwordValues == {258}

TextTypes == {"REG_SZ"}

DwordTypes == {"REG_DWORD"}

\* what a pointer moved past the end of its string may point at
GarbagePaths == {SubA, <<"Z">>}

\* what a handle read from behind keys[] may be: a value that is no handle,
\* or the value of a neighbouring local such as rootKey itself
GarbageHandles == {InvalidHandle, HKEY_CURRENT_USER}

(***************************************************************************)
(* The registry                                                            *)
(***************************************************************************)
NoValues == [n \in {} |-> 0]

RootKeys == { h.key : h \in PredefinedHandles }

EmptyRegistry == [k \in RootKeys |-> NoValues]

HKCU_A == <<"HKEY_CURRENT_USER", <<SubA>> >>
HKCU_A_B == <<"HKEY_CURRENT_USER", <<SubA, <<"B">> >> >>

PopulatedRegistry ==
    [k \in RootKeys \cup {HKCU_A, HKCU_A_B} |->
        IF k = HKCU_A
        THEN [n \in Names |->
                IF n = "N" THEN [type |-> "REG_SZ", data |-> WideBytes(Xs(1))]
                ELSE [type |-> "REG_DWORD", data |-> LittleEndian(258, sizeof_DWORD)]]
        ELSE NoValues]

InitRegistries == {EmptyRegistry, PopulatedRegistry}

\* the key a handle and a subkey string name
KeyAt(h, sub) == <<h.key[1], h.key[2] \o Split(sub)>>

IsPrefix(s, t) == Len(s) <= Len(t) /\ SubSeq(t, 1, Len(s)) = s

Ancestors(k) == { <<k[1], SubSeq(k[2], 1, n)>> : n \in 0..Len(k[2]) }

HasSubkeys(r, k) ==
    \E c \in DOMAIN r : c[1] = k[1] /\ Len(c[2]) > Len(k[2]) /\ IsPrefix(k[2], c[2])

Usable(h, r) == h.kind # "invalid" /\ h.key \in DOMAIN r

\* whether RegCreateKeyEx can succeed, and the registry it leaves
CreateKeyOk(r, h, sub) == Usable(h, r)

CreateKeyReg(r, h, sub) ==
    [k \in DOMAIN r \cup Ancestors(KeyAt(h, sub)) |->
        IF k \in DOMAIN r THEN r[k] ELSE NoValues]

OpenKeyOk(r, h, sub) == Usable(h, r) /\ KeyAt(h, sub) \in DOMAIN r

DeleteKeyOk(r, h, sub) ==
    /\ Usable(h, r)
    /\ Split(sub) # << >>
    /\ KeyAt(h, sub) \in DOMAIN r
    /\ ~HasSubkeys(r, KeyAt(h, sub))

DeleteKeyReg(r, h, sub) == [k \in DOMAIN r \ {KeyAt(h, sub)} |-> r[k]]

SetValueOk(r, h) == Usable(h, r)

\* RegSetValueEx stores the first cb bytes found at the data pointer
SetValueReg(r, h, n, t, bytes, cb) ==
    [r EXCEPT ![h.key] =
        [m \in DOMAIN r[h.key] \cup {n} |->
            IF m = n THEN [type |-> t, data |-> SubSeq(bytes, 1, Min(cb, Len(bytes)))]
            ELSE r[h.key][m]]]

DeleteValueOk(r, h, n) == Usable(h, r) /\ n \in DOMAIN r[h.key]

DeleteValueReg(r, h, n) ==
    [r EXCEPT ![h.key] = [m \in DOMAIN r[h.key] \ {n} |-> r[h.key][m]]]

(***************************************************************************)
(* The code of the four operations                                         *)
(***************************************************************************)
cbData_noTerminator(v) == wcslen(v) * sizeof_wchar_t

\* the length argument of RegSetValueEx in the text overload
cbData(v) == (wcslen(v) + 1) * sizeof_wchar_t

what_copied(prim) ==
    CASE prim = "RegCreateKeyEx" -> "failed to RegCreateKeyEx"
      [] prim = "RegSetValueEx" -> "failed to RegSetValueEx"
      [] prim = "RegDeleteKey" -> "failed to RegDeleteKey"
      [] prim = "RegOpenKeyEx" -> "failed to RegOpenKeyEx"
      [] prim = "RegDeleteValue" -> "failed to RegSetValueEx"

\* the string each throw statement constructs its runtime_error with
what(prim) ==
    CASE prim = "RegCreateKeyEx" -> "failed to RegCreateKeyEx"
      [] prim = "RegSetValueEx" -> "failed to RegSetValueEx"
      [] prim = "RegDeleteKey" -> "failed to RegDeleteKey"
      [] prim = "RegOpenKeyEx" -> "failed to RegOpenKeyEx"
      [] prim = "RegDeleteValue" -> "failed to RegDeleteValue"

AfterFirstStep_unchecked(ok, next) == next

\* if (first primitive == ERROR_SUCCESS) { next step } else { throw }
AfterFirstStep(ok, next) == IF ok THEN next ELSE "catch"

AfterValueStep_noClose(ok) == IF ok THEN "ret" ELSE "catch"

\* if (value primitive == ERROR_SUCCESS) { RegCloseKey } else { throw }
AfterValueStep(ok) == IF ok THEN "close" ELSE "catch"

\* the loop test j < sizeof(branch): the body runs, or the loop is left
ForCond(jj) == IF jj < sizeof_branch THEN "wcsncmp" ELSE "try"

\* entry of a call: HKEY rootKey = HKEY_CURRENT_USER; int j = 0; first loop test
Enter(o, p, n, v, t) ==
    /\ pc' = ForCond(0)
    /\ op' = o
    /\ path0' = p
    /\ path' = p
    /\ name' = n
    /\ value' = v
    /\ type' = t
    /\ rootKey' = HKEY_CURRENT_USER
    /\ j' = 0
    /\ calls' = calls + 1
    /\ reg0' = reg
    /\ UNCHANGED <<reg, openHandles, leakCalls, ptrSize, ex, trace, msgs>>

Idle == pc = "idle" /\ calls < MaxCalls

RegWrite(p, n, v, t) ==
    /\ Idle
    /\ Enter("RegWrite", p, n, [s |-> v, d |-> 0], t)

RegWriteDword(p, n, v, t) ==
    /\ Idle
    /\ Enter("RegWriteDword", p, n, [s |-> << >>, d |-> v], t)

RegDel(p) ==
    /\ Idle
    /\ Enter("RegDel", p, "", [s |-> << >>, d |-> 0], "")

RegDelValue(p, n) ==
    /\ Idle
    /\ Enter("RegDelValue", p, n, [s |-> << >>, d |-> 0], "")

Locals == <<op, path0, name, value, type, reg0>>
Globals == <<calls, leakCalls, ptrSize>>

\* the loop body while j indexes an element of branch[] and keys[]
LoopBody ==
    /\ pc = "wcsncmp"
    /\ j \in DOMAIN branch
    /\ IF wcsncmp(path, branch[j], 5) = 0
       THEN /\ rootKey' = keys[j]
            /\ path' = PathAdvance(path)
            /\ pc' = "try"
            /\ j' = 0
       ELSE /\ j' = IF ForCond(j + 1) = "wcsncmp" THEN j + 1 ELSE 0
            /\ pc' = ForCond(j + 1)
            /\ UNCHANGED <<rootKey, path>>
    /\ UNCHANGED <<reg, openHandles, ex, trace, msgs>>
    /\ UNCHANGED <<Locals, Globals>>

\* the loop body once j is past the arrays: branch[j] is whatever lies
\* behind the array, so the comparison may fault, differ, or match, and a
\* match takes rootKey from behind keys[] and moves path by 5
LoopBodyOutOfBounds ==
    /\ pc = "wcsncmp"
    /\ j \notin DOMAIN branch
    /\ \/ /\ pc' = "crashed"
          /\ UNCHANGED <<rootKey, path, j>>
       \/ /\ pc' = ForCond(j + 1)
          /\ j' = IF ForCond(j + 1) = "wcsncmp" THEN j + 1 ELSE 0
          /\ UNCHANGED <<rootKey, path>>
       \/ /\ pc' = "try"
          /\ rootKey' \in GarbageHandles
          /\ path' \in (IF Len(path) >= 5 THEN {PathAdvance(path)} ELSE GarbagePaths)
          /\ j' = 0
    /\ UNCHANGED <<reg, openHandles, ex, trace, msgs>>
    /\ UNCHANGED <<Locals, Globals>>

\* one more primitive invoked: its name, the handle and subkey passed, whether
\* the system granted the access, and whether it returned ERROR_SUCCESS
Invoke(prim, h, granted, ok) ==
    Append(trace, [prim |-> prim, hkey |-> h, sub |-> path, granted |-> granted, ok |-> ok])

\* RegCreateKeyEx(rootKey, path, ..., KEY_WRITE, NULL, &rootKey, NULL)
CallRegCreateKeyEx ==
    /\ pc = "try"
    /\ op \in {"RegWrite", "RegWriteDword"}
    /\ \E granted \in BOOLEAN :
        LET ok == granted /\ CreateKeyOk(reg, rootKey, path) IN
        /\ trace' = Invoke("RegCreateKeyEx", rootKey, granted, ok)
        /\ pc' = AfterFirstStep(ok, "setvalue")
        /\ ex' = IF ok THEN ex ELSE what("RegCreateKeyEx")
        /\ IF ok
           THEN /\ reg' = CreateKeyReg(reg, rootKey, path)
                /\ rootKey' = Opened(calls, KeyAt(rootKey, path))
                /\ openHandles' = openHandles \cup {calls}
           ELSE UNCHANGED <<reg, rootKey, openHandles>>
    /\ UNCHANGED <<path, j, msgs>>
    /\ UNCHANGED <<Locals, Globals>>

\* RegSetValueEx(rootKey, name, 0, type, data, size) of the two overloads
CallRegSetValueEx ==
    /\ pc = "setvalue"
    /\ \E granted \in BOOLEAN :
        LET ok == granted /\ SetValueOk(reg, rootKey)
            bytes == IF op = "RegWrite" THEN WideBytes(value.s)
                     ELSE LittleEndian(value.d, sizeof_DWORD)
            cb == IF op = "RegWrite" THEN cbData(value.s) ELSE sizeof_DWORD
        IN
        /\ trace' = Invoke("RegSetValueEx", rootKey, granted, ok)
        /\ pc' = AfterValueStep(ok)
        /\ ex' = IF ok THEN ex ELSE what("RegSetValueEx")
        /\ reg' = IF ok THEN SetValueReg(reg, rootKey, name, type, bytes, cb) ELSE reg
    /\ UNCHANGED <<openHandles, path, rootKey, j, msgs>>
    /\ UNCHANGED <<Locals, Globals>>

\* RegDeleteKey(rootKey, path)
CallRegDeleteKey ==
    /\ pc = "try"
    /\ op = "RegDel"
    /\ \E granted \in BOOLEAN :
        LET ok == granted /\ DeleteKeyOk(reg, rootKey, path) IN
        /\ trace' = Invoke("RegDeleteKey", rootKey, granted, ok)
        /\ pc' = AfterValueStep(ok)
        /\ ex' = IF ok THEN ex ELSE what("RegDeleteKey")
        /\ reg' = IF ok THEN DeleteKeyReg(reg, rootKey, path) ELSE reg
    /\ UNCHANGED <<openHandles, path, rootKey, j, msgs>>
    /\ UNCHANGED <<Locals, Globals>>

\* RegOpenKeyEx(rootKey, path, 0, KEY_ALL_ACCESS, &rootKey)
CallRegOpenKeyEx ==
    /\ pc = "try"
    /\ op = "RegDelValue"
    /\ \E granted \in BOOLEAN :
        LET ok == granted /\ OpenKeyOk(reg, rootKey, path) IN
        /\ trace' = Invoke("RegOpenKeyEx", rootKey, granted, ok)
        /\ pc' = AfterFirstStep(ok, "delvalue")
        /\ ex' = IF ok THEN ex ELSE what("RegOpenKeyEx")
        /\ IF ok
           THEN /\ rootKey' = Opened(calls, KeyAt(rootKey, path))
                /\ openHandles' = openHandles \cup {calls}
           ELSE UNCHANGED <<rootKey, openHandles>>
    /\ UNCHANGED <<reg, path, j, msgs>>
    /\ UNCHANGED <<Locals, Globals>>

\* RegDeleteValue(rootKey, name)
CallRegDeleteValue ==
    /\ pc = "delvalue"
    /\ \E granted \in BOOLEAN :
        LET ok == granted /\ DeleteValueOk(reg, rootKey, name) IN
        /\ trace' = Invoke("RegDeleteValue", rootKey, granted, ok)
        /\ pc' = AfterValueStep(ok)
        /\ ex' = IF ok THEN ex ELSE what("RegDeleteValue")
        /\ reg' = IF ok THEN DeleteValueReg(reg, rootKey, name) ELSE reg
    /\ UNCHANGED <<openHandles, path, rootKey, j, msgs>>
    /\ UNCHANGED <<Locals, Globals>>

\* RegCloseKey(rootKey)
CallRegCloseKey ==
    /\ pc = "close"
    /\ trace' = Invoke("RegCloseKey", rootKey, TRUE, TRUE)
    /\ openHandles' = IF rootKey.kind = "opened" THEN openHandles \ {rootKey.id}
                      ELSE openHandles
    /\ pc' = "ret"
    /\ UNCHANGED <<reg, path, rootKey, j, ex, msgs>>
    /\ UNCHANGED <<Locals, Globals>>

\* catch (const std::exception& ex) { MessageBoxA(NULL, ex.what(), "error", MB_ICONERROR); }
Catch ==
    /\ pc = "catch"
    /\ msgs' = Append(msgs, [text |-> ex, caption |-> "error"])
    /\ pc' = "ret"
    /\ UNCHANGED <<reg, openHandles, path, rootKey, j, ex, trace>>
    /\ UNCHANGED <<Locals, Globals>>

Failed(prim) == \E i \in DOMAIN trace : trace[i].prim = prim /\ ~trace[i].ok
Succeeded(prim) == \E i \in DOMAIN trace : trace[i].prim = prim /\ trace[i].ok

\* the call obtained a key handle and its value step failed
LeftOpen ==
    /\ Succeeded("RegCreateKeyEx") \/ Succeeded("RegOpenKeyEx")
    /\ Failed("RegSetValueEx") \/ Failed("RegDeleteValue")

\* the call returns to its caller; its locals go out of scope
Return ==
    /\ pc = "ret"
    /\ pc' = "idle"
    /\ leakCalls' = IF LeftOpen THEN leakCalls + 1 ELSE leakCalls
    /\ op' = ""
    /\ path0' = << >>
    /\ path' = << >>
    /\ name' = ""
    /\ value' = [s |-> << >>, d |-> 0]
    /\ type' = ""
    /\ rootKey' = HKEY_CURRENT_USER
    /\ j' = 0
    /\ ex' = ""
    /\ trace' = << >>
    /\ msgs' = << >>
    /\ reg0' = reg
    /\ UNCHANGED <<reg, openHandles, calls, ptrSize>>

Init ==
    /\ reg \in InitRegistries
    /\ openHandles = {}
    /\ calls = 0
    /\ leakCalls = 0
    /\ ptrSize \in {4, 8}
    /\ pc = "idle"
    /\ op = ""
    /\ path0 = << >>
    /\ path = << >>
    /\ name = ""
    /\ value = [s |-> << >>, d |-> 0]
    /\ type = ""
    /\ rootKey = HKEY_CURRENT_USER
    /\ j = 0
    /\ ex = ""
    /\ trace = << >>
    /\ msgs = << >>
    /\ reg0 = reg

Next ==
    \/ \E p \in Paths, n \in Names, v \in TextValues, t \in TextTypes : RegWrite(p, n, v, t)
    \/ \E p \in Paths, n \in Names, v \in DwordValues, t \in DwordTypes : RegWriteDword(p, n, v, t)
    \/ \E p \in Paths : RegDel(p)
    \/ \E p \in Paths, n \in Names : RegDelValue(p, n)
    \/ LoopBody
    \/ LoopBodyOutOfBounds
    \/ CallRegCreateKeyEx
    \/ CallRegSetValueEx
    \/ CallRegDeleteKey
    \/ CallRegOpenKeyEx
    \/ CallRegDeleteValue
    \/ CallRegCloseKey
    \/ Catch
    \/ Return

Spec == Init /\ [][Next]_vars

TypeOK ==
    /\ pc \in {"idle", "wcsncmp", "try", "setvalue", "delvalue", "close", "catch", "ret", "crashed"}
    /\ openHandles \subseteq 1..calls
    /\ calls \in 0..MaxCalls

(***************************************************************************)
(* Properties                                                              *)
(***************************************************************************)
PrefixHKCU == <<"H", "K", "C", "U", "\\">>
PrefixHKLM == <<"H", "K", "L", "M", "\\">>
PrefixHKCR == <<"H", "K", "C", "R", "\\">>

First5(p) == IF Len(p) >= 5 THEN SubSeq(p, 1, 5) ELSE << >>

HasKnownPrefix(p) == First5(p) \in {PrefixHKCU, PrefixHKLM, PrefixHKCR}

\* the root and subkey a path stands for
ResolvedRoot(p) ==
    CASE First5(p) = PrefixHKLM -> HKEY_LOCAL_MACHINE
      [] First5(p) = PrefixHKCR -> HKEY_CLASSES_ROOT
      [] OTHER -> HKEY_CURRENT_USER

ResolvedSubkey(p) == IF HasKnownPrefix(p) THEN SubSeq(p, 6, Len(p)) ELSE p

ResolvedKey(p) == KeyAt(ResolvedRoot(p), ResolvedSubkey(p))

InCall == pc # "idle"

Resolving == pc = "wcsncmp"

\* the root and subkey of the call are the expected ones wherever they show:
\* in the locals when the first primitive is about to be invoked, and in the
\* arguments of the first primitive once it has been invoked
ResolvesTo(h, sub) ==
    /\ pc # "crashed"
    /\ pc = "try" => rootKey = h /\ path = sub
    /\ trace # << >> => trace[1].hkey = h /\ trace[1].sub = sub

\* C1: in each of the four operations a path whose first 5 characters are
\* HKCU\, HKLM\ or HKCR\ is resolved to HKEY_CURRENT_USER, HKEY_LOCAL_MACHINE
\* or HKEY_CLASSES_ROOT respectively, and the subkey passed to the registry
\* is the path without those 5 characters.
C1_KnownPrefixResolved ==
    (InCall /\ ~Resolving /\ HasKnownPrefix(path0))
        => ResolvesTo(ResolvedRoot(path0), SubSeq(path0, 6, Len(path0)))

C1_Witness ==
    /\ pc = "ret"
    /\ op = "RegDelValue"
    /\ First5(path0) = PrefixHKCR
    /\ trace # << >>
    /\ trace[1].hkey = HKEY_CLASSES_ROOT
    /\ trace[1].sub = <<"A">>

\* C2: in each of the four operations a path whose first 5 characters match
\* no known prefix finishes root resolution with HKEY_CURRENT_USER as root and
\* the unmodified path as subkey, and no error is reported for the prefix.
C2_UnknownPrefixDefaults ==
    (InCall /\ ~Resolving /\ ~HasKnownPrefix(path0))
        => /\ ResolvesTo(HKEY_CURRENT_USER, path0)
           /\ trace = << >> => msgs = << >>

Failures == { i \in DOMAIN trace : ~trace[i].ok }

Diagnostic(prim) ==
    CASE prim = "RegCreateKeyEx" -> "failed to RegCreateKeyEx"
      [] prim = "RegSetValueEx" -> "failed to RegSetValueEx"
      [] prim = "RegDeleteKey" -> "failed to RegDeleteKey"
      [] prim = "RegOpenKeyEx" -> "failed to RegOpenKeyEx"
      [] prim = "RegDeleteValue" -> "failed to RegDeleteValue"
      [] OTHER -> "?"

\* C3: in every call, a failing registry primitive leads to exactly one
\* message box, titled "error" and naming the primitive that failed, after
\* which the call returns; a call whose primitives all succeed shows none.
C3_FailureShownOnce ==
    /\ Len(msgs) <= 1
    /\ Failures # {} => pc \in {"catch", "ret"}
    /\ pc = "ret" =>
          IF Failures = {} THEN msgs = << >>
          ELSE /\ Len(msgs) = 1
               /\ msgs[1].caption = "error"
               /\ \A i \in Failures : msgs[1].text = Diagnostic(trace[i].prim)

C3_Witness ==
    /\ pc = "ret"
    /\ Failed("RegDeleteValue")
    /\ msgs = <<[text |-> "failed to RegDeleteValue", caption |-> "error"]>>

WriteSucceeded == Succeeded("RegCreateKeyEx") /\ Succeeded("RegSetValueEx")

\* the key the handle of this call's value step names
ValueStepKey == trace[2].hkey.key

\* C4: after a successful text RegWrite of a value of n characters the data
\* stored under the name is (n + 1) * sizeof(wchar_t) bytes long: the n
\* characters and the terminator.
C4_TextLengthWithTerminator ==
    (pc = "ret" /\ op = "RegWrite" /\ WriteSucceeded)
        => /\ name \in DOMAIN reg[ValueStepKey]
           /\ Len(reg[ValueStepKey][name].data) = (Len(value.s) + 1) * 2
           /\ \A i \in 1..Len(value.s) :
                  /\ reg[ValueStepKey][name].data[2 * i - 1] = value.s[i] % 256
                  /\ reg[ValueStepKey][name].data[2 * i] = value.s[i] \div 256
           /\ reg[ValueStepKey][name].data[2 * Len(value.s) + 1] = 0
           /\ reg[ValueStepKey][name].data[2 * Len(value.s) + 2] = 0

C4_Witness ==
    /\ pc = "ret"
    /\ op = "RegWrite"
    /\ WriteSucceeded
    /\ value.s = << >>
    /\ reg[ValueStepKey][name].data = <<0, 0>>

CallSucceeded == pc = "ret" /\ trace # << >> /\ Failures = {} /\ msgs = << >>

\* C5: a successful RegDel(path, name) on an existing key that holds the
\* named value leaves the key without that value and changes no other value
\* of the key and no other key.
C5_DeleteValueExact ==
    LET K == ResolvedKey(path0) IN
    (/\ op = "RegDelValue"
     /\ CallSucceeded
     /\ K \in DOMAIN reg0
     /\ name \in DOMAIN reg0[K])
        => /\ DOMAIN reg = DOMAIN reg0
           /\ name \notin DOMAIN reg[K]
           /\ \A m \in DOMAIN reg0[K] \ {name} :
                  m \in DOMAIN reg[K] /\ reg[K][m] = reg0[K][m]
           /\ \A k \in DOMAIN reg0 \ {K} : reg[k] = reg0[k]

AccessGranted == \A i \in DOMAIN trace : trace[i].granted

\* C6: RegDel(path) on an existing subkey without child keys removes it and
\* shows no notification (the system granting the access); on a subkey with
\* a child key it removes nothing and shows "failed to RegDeleteKey".
C6_DeleteKeyLeafOnly ==
    LET K == ResolvedKey(path0) IN
    (op = "RegDel" /\ pc \in {"ret", "crashed"} /\ K \in DOMAIN reg0 /\ K[2] # << >>)
        => IF HasSubkeys(reg0, K)
           THEN /\ pc = "ret"
                /\ reg = reg0
                /\ msgs = <<[text |-> "failed to RegDeleteKey", caption |-> "error"]>>
           ELSE AccessGranted =>
                /\ pc = "ret"
                /\ K \notin DOMAIN reg
                /\ msgs = << >>

Invocations(prim) == { i \in DOMAIN trace : trace[i].prim = prim }

SucceededBefore(prim, i) == \E k \in 1..(i - 1) : trace[k].prim = prim /\ trace[k].ok

\* C7: within one call each primitive is invoked at most once, RegSetValueEx
\* only after RegCreateKeyEx succeeded and RegDeleteValue only after
\* RegOpenKeyEx succeeded; a call whose key creation or opening failed
\* leaves the registry as it found it.
C7_NoRetryAndOrder ==
    /\ \A i, k \in DOMAIN trace : trace[i].prim = trace[k].prim => i = k
    /\ \A i \in Invocations("RegSetValueEx") : SucceededBefore("RegCreateKeyEx", i)
    /\ \A i \in Invocations("RegDeleteValue") : SucceededBefore("RegOpenKeyEx", i)
    /\ (Failed("RegCreateKeyEx") \/ Failed("RegOpenKeyEx")) => reg = reg0

C7_Witness ==
    /\ pc = "ret"
    /\ Failed("RegCreateKeyEx")
    /\ Len(trace) = 1
    /\ HKCU_A \in DOMAIN reg0

ObtainedHandle == Succeeded("RegCreateKeyEx") \/ Succeeded("RegOpenKeyEx")

ValueStepSucceeded == Succeeded("RegSetValueEx") \/ Succeeded("RegDeleteValue")

\* how often this call has closed the handle it obtained
ClosesOfOwn ==
    Cardinality({ i \in Invocations("RegCloseKey") :
                    trace[i].hkey.kind = "opened" /\ trace[i].hkey.id = calls })

\* C8: the handle a call obtains from RegCreateKeyEx or RegOpenKeyEx is
\* closed exactly once before the call returns when the value step
\* succeeded and is never closed when the value step failed, so the open
\* handles are as many as the calls that obtained one and whose value step
\* failed.
C8_HandlesPerCall ==
    /\ pc = "idle" => Cardinality(openHandles) = leakCalls
    /\ pc = "ret" =>
          /\ Cardinality(openHandles \ {calls}) = leakCalls
          /\ ObtainedHandle =>
                IF ValueStepSucceeded
                THEN ClosesOfOwn = 1 /\ calls \notin openHandles
                ELSE ClosesOfOwn = 0 /\ calls \in openHandles
          /\ ~ObtainedHandle => calls \notin openHandles

C8_Witness ==
    /\ pc = "idle"
    /\ calls = 2
    /\ leakCalls = 1
    /\ Cardinality(openHandles) = 1

\* C9: the root resolution loop reads branch[] and keys[] at the indices 0,
\* 1 and 2 only: j is at most 2 whenever branch[j] is compared.
C9_IndexInBounds == pc = "wcsncmp" => j \in 0..2

\* C10: RegCloseKey is applied only to a handle the same call obtained from
\* RegCreateKeyEx or RegOpenKeyEx, never to a predefined root handle.
C10_ClosesOnlyOwnHandle ==
    \A i \in Invocations("RegCloseKey") :
        /\ trace[i].hkey.kind = "opened"
        /\ trace[i].hkey.id = calls
        /\ trace[i].hkey \notin PredefinedHandles

====
